---- MODULE Spec2Model ----
(***************************************************************************)
(* Model of src/main.py: a FastAPI gateway in front of yt-dlp.             *)
(*                                                                         *)
(*   SpecGate      calls to rate_limit (the sliding-log admission gate)    *)
(*                 from several client hosts while the clock advances.     *)
(*   Spec          the life of concurrent /download requests: the          *)
(*                 verify_api_key dependency, the handler body on the      *)
(*                 event loop, and the stream_file generator.              *)
(*   SpecAdmission the same requests, from several hosts over the clock.   *)
(*   SpecAuth      the same requests, for every secret and header.         *)
(*   SpecPlaylist  the /playlist/info handler applied to engine results.   *)
(*                                                                         *)
(* The handler body is synchronous code in a coroutine: from rate_limit to *)
(* its return it occupies the event loop (loop), while verify_api_key and  *)
(* the steps of stream_file run on worker threads and interleave freely.   *)
(*                                                                         *)
(* Time is counted in whole seconds and never runs backwards.              *)
(***************************************************************************)
EXTENDS Integers, Sequences, FiniteSets, TLC

\* ---------------------------------------------------------------- bounds
MaxTime == 120
MaxCalls == 7
MaxChunks == 2
MaxEntries == 3
FileTime == 60
AdmissionTime == 60

\* ------------------------------------------------------ program constants
RATE_LIMIT == 5
RATE_WINDOW == 60

NONE == "<None>"

\* client hosts (request.client.host)
IPs == {"10.0.0.1", "10.0.0.2"}

\* seconds by which the clock advances between two observations
Deltas == {RATE_WINDOW - 1, RATE_WINDOW}

\* /download requests that can be outstanding at the same time
Reqs == {"r1", "r2"}

\* values of the X-API-KEY header (NONE: the header is absent)
Headers == {NONE, "s3cr3t", "S3CR3T"}

\* values of the API_KEY environment variable (NONE: unset)
Secrets == {NONE, "", "s3cr3t"}

\* values of uuid.uuid4().hex[:8], as sequences of characters
UIDs == {<<"0", "a", "1", "b", "2", "c", "3", "d">>,
         <<"4", "e", "5", "f", "6", "a", "7", "b">>}

\* what the engine puts after the identifier: the merged output or a leftover
Exts == {<<".", "m", "p", "4">>, <<".", "p", "a", "r", "t">>}

VARIABLES
    clients,    \* the dict clients: host -> list of admitted timestamps
    now,        \* time.time()
    calls,      \* history: every rate_limit call so far, [ip, t, ok]
    API_KEY,    \* os.getenv("API_KEY", None), read once at import
    pc,         \* where each request is
    hdr,        \* request.headers.get("X-API-KEY")
    uid,        \* the local uid of download_video
    file_path,  \* the local file_path of download_video (name within /tmp)
    tmp,        \* the names present in /tmp
    loop,       \* the request whose handler body occupies the event loop
    sent,       \* chunks yielded by stream_file so far
    status,     \* HTTP status of the response, 0 while there is none
    ending,     \* history: how the response stream ended
    admitted,   \* history: per host, the timestamps rate_limit admitted
    info,       \* /info, /playlist/info: what ydl.extract_info does
    response,   \* /info, /playlist/info: the response, of status 0 while none
    written     \* history: the names the request's own ydl.download wrote,
                \* kept until the handler has listed /tmp

gateVars == <<clients, now, calls>>
reqVars == <<pc, hdr, uid, file_path, loop, sent, status, ending, written>>
restVars == <<API_KEY, info, response>>
vars == <<clients, now, calls, API_KEY, pc, hdr, uid, file_path, tmp,
          loop, sent, status, ending, admitted, info, response, written>>

\* ------------------------------------------------------------ rate_limit
RECURSIVE PruneInclusive(_, _)
PruneInclusive(list, t) ==
    IF list = <<>> THEN <<>>
    ELSE IF t - Head(list) <= RATE_WINDOW
         THEN <<Head(list)>> \o PruneInclusive(Tail(list), t)
         ELSE PruneInclusive(Tail(list), t)

\* [t for t in clients[ip] if now - t < RATE_WINDOW]
RECURSIVE Prune(_, _)
Prune(list, t) ==
    IF list = <<>> THEN <<>>
    ELSE IF t - Head(list) < RATE_WINDOW
         THEN <<Head(list)>> \o Prune(Tail(list), t)
         ELSE Prune(Tail(list), t)

OverLimitOffByOne(list) == Len(list) > RATE_LIMIT

\* len(clients[ip]) >= RATE_LIMIT
OverLimit(list) == Len(list) >= RATE_LIMIT

\* the list a host has before it was ever seen: "if ip not in clients"
Stored(i) == IF i \in DOMAIN clients THEN clients[i] ELSE <<>>

ClientsAfterLostUpdate(i, t) ==
    [j \in (DOMAIN clients) \cup {i} |->
        IF j = i THEN Prune(Stored(i), t) ELSE clients[j]]

\* a rate_limit that appends the timestamp before it tests the limit
ClientsAfterRecordingAll(i, t) ==
    [j \in (DOMAIN clients) \cup {i} |->
        IF j = i THEN Append(Prune(Stored(i), t), t) ELSE clients[j]]

\* a rate_limit whose list is shared by all the hosts seen so far
ClientsAfterSharedList(i, t) ==
    LET kept == Prune(Stored(i), t)
        new  == IF OverLimit(kept) THEN kept ELSE Append(kept, t)
    IN [j \in (DOMAIN clients) \cup {i} |-> new]

\* the dict after rate_limit(request) for host i at time t
ClientsAfter(i, t) ==
    LET kept == Prune(Stored(i), t)
        new  == IF OverLimit(kept) THEN kept ELSE Append(kept, t)
    IN [j \in (DOMAIN clients) \cup {i} |-> IF j = i THEN new ELSE clients[j]]

\* TRUE when rate_limit returns, FALSE when it raises HTTPException(429)
Admits(i, t) == ~OverLimit(Prune(Stored(i), t))

\* ------------------------------------------------- the gate on its own
\* a clock whose advance sweeps the expired timestamps out of every list
TickSweeping(w) ==
    \E d \in w.deltas :
        /\ now + d <= w.until
        /\ now' = now + d
        /\ clients' = [j \in DOMAIN clients |-> Prune(clients[j], now + d)]
        /\ UNCHANGED <<calls, restVars, reqVars, tmp, admitted>>

\* the clock advances; w is the part of the environment that is explored
Tick(w) ==
    \E d \in w.deltas :
        /\ now + d <= w.until
        /\ now' = now + d
        /\ UNCHANGED <<clients, calls, restVars, reqVars, tmp, admitted>>

\* one call rate_limit(request) with request.client.host = i
GateCall(i) ==
    /\ Len(calls) < MaxCalls
    /\ clients' = ClientsAfter(i, now)
    /\ calls' = Append(calls, [ip |-> i, t |-> now, ok |-> Admits(i, now)])
    /\ admitted' = IF Admits(i, now)
                   THEN [admitted EXCEPT ![i] = Append(@, now)]
                   ELSE admitted
    /\ UNCHANGED <<now, restVars, reqVars, tmp>>

\* the state after import: no host seen, no request, /tmp holds no artifact
Fresh ==
    /\ clients = <<>>
    /\ now = 0
    /\ calls = <<>>
    /\ pc = [r \in Reqs |-> "idle"]
    /\ hdr = [r \in Reqs |-> NONE]
    /\ uid = [r \in Reqs |-> NONE]
    /\ file_path = [r \in Reqs |-> NONE]
    /\ tmp = {}
    /\ loop = NONE
    /\ sent = [r \in Reqs |-> 0]
    /\ status = [r \in Reqs |-> 0]
    /\ ending = [r \in Reqs |-> NONE]
    /\ admitted = [i \in IPs |-> <<>>]
    /\ written = [r \in Reqs |-> {}]

\* no /playlist/info request
NoPlaylist ==
    /\ info = [kind |-> "none"]
    /\ response = [status |-> 0]

\* the clients and the clock explored for rate_limit on its own
GateWorld == [hosts |-> IPs, deltas |-> Deltas, until |-> MaxTime]

GateInit ==
    /\ Fresh
    /\ NoPlaylist
    /\ API_KEY = NONE

GateNext ==
    \/ Tick(GateWorld)
    \/ \E i \in GateWorld.hosts : GateCall(i)

SpecGate == GateInit /\ [][GateNext]_vars

\* ------------------------------------------------------------ /download
\* a request is received; FastAPI first resolves Depends(verify_api_key)
Arrive(r, w) ==
    /\ pc[r] \in {"idle", "done"}
    /\ \E k \in w.headers : hdr' = [hdr EXCEPT ![r] = k]
    /\ pc' = [pc EXCEPT ![r] = "verify"]
    /\ status' = [status EXCEPT ![r] = 0]
    /\ ending' = [ending EXCEPT ![r] = NONE]
    /\ UNCHANGED <<gateVars, restVars, uid, file_path, tmp, loop, sent,
                   admitted, written>>

\* the response has status st; the request and the handler's locals are gone
Finished(r, st) ==
    /\ status' = [status EXCEPT ![r] = st]
    /\ hdr' = [hdr EXCEPT ![r] = NONE]
    /\ pc' = [pc EXCEPT ![r] = "done"]
    /\ uid' = [uid EXCEPT ![r] = NONE]
    /\ file_path' = [file_path EXCEPT ![r] = NONE]
    /\ sent' = [sent EXCEPT ![r] = 0]
    /\ written' = [written EXCEPT ![r] = {}]

\* the handler body goes on to its next statement
Goto(r, label) ==
    /\ pc' = [pc EXCEPT ![r] = label]
    /\ UNCHANGED <<status, sent, hdr, written>>

\* "if API_KEY:" -- None and the empty string are falsy
Truthy(s) == s \notin {NONE, ""}

KeyRejectedNever(k) == FALSE

KeyRejectedWhenSet(k) == API_KEY # NONE /\ k # API_KEY

\* verify_api_key raises HTTPException(401)
KeyRejected(k) == Truthy(API_KEY) /\ k # API_KEY

\* the dependency verify_api_key, run before the handler body
VerifyApiKey(r) ==
    /\ pc[r] = "verify"
    /\ IF KeyRejected(hdr[r])
       THEN Finished(r, 401)
       ELSE Goto(r, "ready") /\ UNCHANGED <<uid, file_path>>
    /\ UNCHANGED <<gateVars, restVars, tmp, loop, ending, admitted>>

\* the handler body starts on the event loop: rate_limit(request), where
\* ip = request.client.host
RateLimit(r, w) ==
    /\ pc[r] = "ready"
    /\ loop = NONE
    /\ \E ip \in w.hosts :
        /\ clients' = ClientsAfter(ip, now)
        /\ IF Admits(ip, now)
           THEN /\ Goto(r, "probe")
                /\ loop' = r
                /\ admitted' = [admitted EXCEPT ![ip] = Append(@, now)]
                /\ UNCHANGED <<uid, file_path>>
           ELSE /\ Finished(r, 429)
                /\ UNCHANGED <<loop, admitted>>
    /\ UNCHANGED <<now, calls, restVars, tmp, ending>>

\* a handler that answers a failure after admission with "not found"
Fail404(r) ==
    /\ Finished(r, 404)
    /\ loop' = NONE

\* "except Exception as e: raise HTTPException(status_code=500, ...)"
Fail500(r) ==
    /\ Finished(r, 500)
    /\ loop' = NONE

\* a handler that gives a timestamp back when the probe fails
ProbeRefunding(r) ==
    /\ pc[r] = "probe"
    /\ \/ Goto(r, "naming") /\ UNCHANGED <<uid, file_path, loop, clients>>
       \/ /\ Fail500(r)
          /\ \E i \in DOMAIN clients :
                /\ Len(clients[i]) > 0
                /\ clients' = [clients EXCEPT ![i] = SubSeq(@, 1, Len(@) - 1)]
    /\ UNCHANGED <<now, calls, restVars, tmp, ending, admitted>>

\* ydl.extract_info(url, download=False): returns, or raises
Probe(r) ==
    /\ pc[r] = "probe"
    /\ \/ Goto(r, "naming") /\ UNCHANGED <<uid, file_path, loop>>
       \/ Fail500(r)
    /\ UNCHANGED <<gateVars, restVars, tmp, ending, admitted>>

\* uid = uuid.uuid4().hex[:8]
GenUid(r, w) ==
    /\ pc[r] = "naming"
    /\ \E u \in w.uids : uid' = [uid EXCEPT ![r] = u]
    /\ Goto(r, "download")
    /\ UNCHANGED <<gateVars, restVars, file_path, tmp, loop, ending,
                   admitted>>

\* ydl.download([url]) with outtmpl /tmp/{uid}.%(ext)s: the engine leaves at
\* most one file named after the identifier, and returns or raises
Download(r, w) ==
    /\ pc[r] = "download"
    /\ \E wrote \in {{}} \cup {{uid[r] \o e} : e \in w.exts} :
          /\ tmp' = tmp \cup wrote
          /\ \/ /\ pc' = [pc EXCEPT ![r] = "locate"]
                /\ written' = [written EXCEPT ![r] = wrote]
                /\ UNCHANGED <<status, sent, hdr, uid, file_path, loop>>
             \/ Fail500(r)
    /\ UNCHANGED <<gateVars, restVars, ending, admitted>>

\* f.startswith(uid)
StartsWith(f, u) == Len(f) >= Len(u) /\ SubSeq(f, 1, Len(u)) = u

\* next((... for f in os.listdir("/tmp") if f.startswith(uid)), None):
\* os.listdir gives the names in arbitrary order
Locate(r) ==
    /\ pc[r] = "locate"
    /\ LET found == {f \in tmp : StartsWith(f, uid[r])}
       IN IF found = {}
          THEN file_path' = [file_path EXCEPT ![r] = NONE]
          ELSE \E f \in found : file_path' = [file_path EXCEPT ![r] = f]
    /\ pc' = [pc EXCEPT ![r] = "validate"]
    /\ written' = [written EXCEPT ![r] = {}]
    /\ UNCHANGED <<gateVars, restVars, uid, tmp, loop, ending,
                   admitted, status, sent, hdr>>

\* a handler that returns the StreamingResponse without testing file_path
ValidateNothing(r) ==
    /\ pc[r] = "validate"
    /\ status' = [status EXCEPT ![r] = 200]
    /\ pc' = [pc EXCEPT ![r] = "respond"]
    /\ loop' = NONE
    /\ UNCHANGED <<hdr, uid, file_path, sent, written>>
    /\ UNCHANGED <<gateVars, restVars, tmp, ending, admitted>>

\* "if not file_path or not os.path.exists(file_path): raise ...(500)",
\* else return StreamingResponse(stream_file(), ...)
Validate(r) ==
    /\ pc[r] = "validate"
    /\ IF file_path[r] = NONE \/ file_path[r] \notin tmp
       THEN Fail500(r)
       ELSE /\ status' = [status EXCEPT ![r] = 200]
            /\ pc' = [pc EXCEPT ![r] = "respond"]
            /\ loop' = NONE
            /\ UNCHANGED <<hdr, uid, file_path, sent, written>>
    /\ UNCHANGED <<gateVars, restVars, tmp, ending, admitted>>

\* ------------------------------------------------------------ stream_file
\* the generator is over: exhausted, closed, or ended by an exception
StreamOver(r, how) ==
    /\ pc' = [pc EXCEPT ![r] = "done"]
    /\ ending' = [ending EXCEPT ![r] = how]
    /\ hdr' = [hdr EXCEPT ![r] = NONE]
    /\ uid' = [uid EXCEPT ![r] = NONE]
    /\ file_path' = [file_path EXCEPT ![r] = NONE]
    /\ sent' = [sent EXCEPT ![r] = 0]
    /\ written' = [written EXCEPT ![r] = {}]

\* first next(): "with open(file_path, 'rb') as f"
StreamOpen(r) ==
    /\ pc[r] = "respond"
    /\ IF file_path[r] \in tmp
       THEN Goto(r, "streaming") /\ UNCHANGED <<uid, file_path, ending>>
       ELSE StreamOver(r, "open_failed") /\ UNCHANGED status
    /\ UNCHANGED <<gateVars, restVars, tmp, loop, admitted>>

\* "yield from f": one more chunk goes to the client
StreamChunk(r) ==
    /\ pc[r] = "streaming"
    /\ sent[r] < MaxChunks
    /\ sent' = [sent EXCEPT ![r] = @ + 1]
    /\ UNCHANGED <<gateVars, restVars, pc, hdr, uid, file_path, tmp, loop,
                   status, ending, admitted, written>>

AfterRemoveNothing(r) == tmp

\* /tmp after os.remove(file_path)
AfterRemove(r) == tmp \ {file_path[r]}

\* f is exhausted: the with block ends and os.remove(file_path) runs
StreamEnd(r) ==
    /\ pc[r] = "streaming"
    /\ tmp' = AfterRemove(r)
    /\ StreamOver(r, "consumed")
    /\ UNCHANGED <<gateVars, restVars, loop, status, admitted>>

\* the client disconnects, a write downstream or a read fails: the generator
\* is closed or left at its yield, and the line after the with block never runs
StreamInterrupt(r) ==
    /\ pc[r] \in {"respond", "streaming"}
    /\ StreamOver(r, "interrupted")
    /\ UNCHANGED <<gateVars, restVars, tmp, loop, status, admitted>>

\* the state after import, with the secret of the deployment
Start(w) ==
    /\ Fresh
    /\ NoPlaylist
    /\ API_KEY \in w.secrets

\* one step of one request, or of the clock
Step(w) ==
    \/ Tick(w)
    \/ \E r \in Reqs :
        \/ Arrive(r, w)
        \/ VerifyApiKey(r)
        \/ RateLimit(r, w)
        \/ Probe(r)
        \/ GenUid(r, w)
        \/ Download(r, w)
        \/ Locate(r)
        \/ Validate(r)
        \/ StreamOpen(r)
        \/ StreamChunk(r)
        \/ StreamEnd(r)
        \/ StreamInterrupt(r)

\* downloads in detail: every identifier and engine output, for one client
\* host behind a secret, the clock going from one window to the next
FileWorld ==
    [hosts |-> {"10.0.0.1"}, deltas |-> {RATE_WINDOW}, until |-> FileTime,
     secrets |-> {"s3cr3t"}, headers |-> Headers, uids |-> UIDs, exts |-> Exts]

Init == Start(FileWorld)
Next == Step(FileWorld)
Spec == Init /\ [][Next]_vars

\* admission in detail: several hosts over several windows, behind a secret,
\* with one identifier and one engine output
AdmissionWorld ==
    [hosts |-> IPs, deltas |-> Deltas, until |-> AdmissionTime,
     secrets |-> {"s3cr3t"}, headers |-> Headers,
     uids |-> {<<"0", "a", "1", "b", "2", "c", "3", "d">>},
     exts |-> {<<".", "m", "p", "4">>}]

AdmissionInit == Start(AdmissionWorld)
AdmissionNext == Step(AdmissionWorld)
SpecAdmission == AdmissionInit /\ [][AdmissionNext]_vars

\* the credential check in detail: every secret against every header, for
\* one client host, one identifier and one engine output
AuthWorld ==
    [hosts |-> {"10.0.0.1"}, deltas |-> {RATE_WINDOW}, until |-> FileTime,
     secrets |-> Secrets, headers |-> Headers,
     uids |-> {<<"0", "a", "1", "b", "2", "c", "3", "d">>},
     exts |-> {<<".", "m", "p", "4">>}]

AuthInit == Start(AuthWorld)
AuthNext == Step(AuthWorld)
SpecAuth == AuthInit /\ [][AuthNext]_vars

\* -------------------------------------------------------- /playlist/info
\* a null member of info['entries']
Null == [null |-> TRUE]

\* members of info['entries']: null for an unavailable video, or a video's
\* dict, which may lack keys
Members ==
    {Null, [id |-> "c"],
     [id |-> "a", title |-> "A", thumbnail |-> "a.jpg", duration |-> 10,
      webpage_url |-> "https://v/a"],
     [id |-> "b", title |-> "B", duration |-> 20,
      webpage_url |-> "https://v/b"]}

\* sequences over S of length at most n
SeqsUpTo(S, n) == UNION {[1..k -> S] : k \in 0..n}

\* what the engine does for a url: raise, or return a dict with or without
\* the key 'entries'
EngineResults ==
    {[kind |-> "raises"], [kind |-> "video", title |-> "clip"]}
    \cup {[kind |-> "playlist", title |-> t, entries |-> es] :
            t \in {NONE, "mix"}, es \in SeqsUpTo(Members, MaxEntries)}

\* d.get(k)
Get(d, k) == IF k \in DOMAIN d THEN d[k] ELSE NONE

\* "if not entry": None and the empty dict are falsy
Falsy(entry) == entry = Null \/ DOMAIN entry = {}

\* the loop over info['entries'] that fills videos
RECURSIVE Videos(_)
Videos(es) ==
    IF es = <<>> THEN <<>>
    ELSE IF Falsy(Head(es)) THEN Videos(Tail(es))
    ELSE <<[id |-> Get(Head(es), "id"),
            title |-> Get(Head(es), "title"),
            thumbnail |-> Get(Head(es), "thumbnail"),
            duration |-> Get(Head(es), "duration"),
            url |-> Get(Head(es), "webpage_url")]>> \o Videos(Tail(es))

\* a try block that reports the engine's number of entries as the count
TryBodyEngineCount(i) ==
    IF i.kind = "raises"
    THEN [raised |-> "DownloadError"]
    ELSE IF "entries" \notin DOMAIN i
    THEN [raised |-> "HTTPException(400)"]
    ELSE [raised |-> NONE,
          body |-> [playlist_title |-> Get(i, "title"),
                    count |-> Len(i.entries),
                    videos |-> Videos(i.entries)]]

\* the body of the try block: what it returns, or the exception it raises
TryBody(i) ==
    IF i.kind = "raises"
    THEN [raised |-> "DownloadError"]
    ELSE IF "entries" \notin DOMAIN i
    THEN [raised |-> "HTTPException(400)"]
    ELSE [raised |-> NONE,
          body |-> [playlist_title |-> Get(i, "title"),
                    count |-> Len(Videos(i.entries)),
                    videos |-> Videos(i.entries)]]

\* "except Exception as e: raise HTTPException(status_code=500, ...)":
\* HTTPException is an Exception, so the 400 raised in the try block is
\* caught here as well
PlaylistResponse(i) ==
    LET got == TryBody(i)
    IN IF got.raised # NONE
       THEN [status |-> 500, detail |-> got.raised]
       ELSE [status |-> 200, body |-> got.body]

\* the handler playlist_info
PlaylistInfo ==
    /\ response.status = 0
    /\ response' = PlaylistResponse(info)
    /\ UNCHANGED <<gateVars, reqVars, tmp, admitted, API_KEY, info>>

PlaylistInit ==
    /\ Fresh
    /\ API_KEY = NONE
    /\ info \in EngineResults
    /\ response = [status |-> 0]

PlaylistNext == PlaylistInfo

SpecPlaylist == PlaylistInit /\ [][PlaylistNext]_vars

\* ------------------------------------------------------------------ /info
\* members of info['formats']: with a height, or audio only
Formats ==
    {[format_id |-> "18", ext |-> "mp4", height |-> 360],
     [format_id |-> "22", ext |-> "mp4", height |-> 720],
     [format_id |-> "140", ext |-> "m4a"]}

\* what the engine does for a url: raise, or return a dict with or without
\* the key 'formats'
InfoResults ==
    {[kind |-> "raises"], [kind |-> "video", title |-> "clip"]}
    \cup {[kind |-> "video", title |-> "clip", uploader |-> "u",
           duration |-> 10, formats |-> fs] :
            fs \in SeqsUpTo(Formats, MaxEntries)}

\* "if f.get("height")"
HasHeight(f) == "height" \in DOMAIN f /\ f.height # 0

\* the list comprehension over info.get("formats", [])
RECURSIVE FormatList(_)
FormatList(fs) ==
    IF fs = <<>> THEN <<>>
    ELSE IF ~HasHeight(Head(fs)) THEN FormatList(Tail(fs))
    ELSE <<[format_id |-> Get(Head(fs), "format_id"),
            ext |-> Get(Head(fs), "ext"),
            height |-> Get(Head(fs), "height")]>> \o FormatList(Tail(fs))

\* a handler that turns an engine failure into a 500, as playlist_info does
InfoResponseRaising(i) ==
    IF i.kind = "raises"
    THEN [status |-> 500, detail |-> "DownloadError"]
    ELSE [status |-> 200,
          body |-> [title |-> Get(i, "title"),
                    thumbnail |-> Get(i, "thumbnail"),
                    duration |-> Get(i, "duration"),
                    uploader |-> Get(i, "uploader"),
                    formats |-> FormatList(IF "formats" \in DOMAIN i
                                           THEN i.formats ELSE <<>>)]]

\* the dict video_info returns: FastAPI sends it with status 200
InfoResponse(i) ==
    IF i.kind = "raises"
    THEN [status |-> 200, body |-> [error |-> "DownloadError"]]
    ELSE [status |-> 200,
          body |-> [title |-> Get(i, "title"),
                    thumbnail |-> Get(i, "thumbnail"),
                    duration |-> Get(i, "duration"),
                    uploader |-> Get(i, "uploader"),
                    formats |-> FormatList(IF "formats" \in DOMAIN i
                                           THEN i.formats ELSE <<>>)]]

\* the handler video_info: no dependency, no call of rate_limit
VideoInfo ==
    /\ response.status = 0
    /\ response' = InfoResponse(info)
    /\ UNCHANGED <<gateVars, reqVars, tmp, admitted, API_KEY, info>>

\* one /info request, with or without a secret configured, next to the
\* calls of rate_limit of one host
InfoInit ==
    /\ Fresh
    /\ API_KEY \in Secrets
    /\ info \in InfoResults
    /\ response = [status |-> 0]

InfoNext ==
    \/ VideoInfo
    \/ GateCall("10.0.0.1")

SpecInfo == InfoInit /\ [][InfoNext]_vars

\* ================================================================ claims
\* ---- the admission gate on its own (SpecGate)
SameHost(j, k) == calls[j].ip = calls[k].ip

\* call k finds no admitted call of its host within the last RATE_WINDOW s
WindowEmptyAt(k) ==
    \A j \in 1..(k - 1) :
        (SameHost(j, k) /\ calls[j].ok) => calls[k].t - calls[j].t >= RATE_WINDOW

\* the position of call m among its host's calls from call k on
Rank(k, m) == Cardinality({j \in k..m : SameHost(j, k)})

\* call m is made by the host of call k, not before it, in the window of k
InWindowOf(k, m) ==
    /\ k <= m
    /\ SameHost(k, m)
    /\ WindowEmptyAt(k)
    /\ calls[m].t - calls[k].t < RATE_WINDOW

\* C1: for every host, starting from an empty window, the first RATE_LIMIT
\* calls made within one RATE_WINDOW are admitted and the next call in that
\* window is rejected (429).
C1_FirstLimitAdmittedNextRejected ==
    \A k, m \in 1..Len(calls) :
        InWindowOf(k, m) =>
            /\ Rank(k, m) <= RATE_LIMIT => calls[m].ok
            /\ Rank(k, m) = RATE_LIMIT + 1 => ~calls[m].ok

\* a host's sixth call in a window, made later than the first, is rejected
C1_Witness ==
    \E k, m \in 1..Len(calls) :
        /\ InWindowOf(k, m)
        /\ Rank(k, m) = RATE_LIMIT + 1
        /\ calls[m].t > calls[k].t
        /\ ~calls[m].ok

\* call m comes RATE_WINDOW or more after every earlier call of its host
QuietBefore(m) ==
    \A j \in 1..(m - 1) : SameHost(j, m) => calls[m].t - calls[j].t >= RATE_WINDOW

RejectedBefore(m) == \E j \in 1..(m - 1) : SameHost(j, m) /\ ~calls[j].ok

\* C5: a host that was rejected is admitted again once RATE_WINDOW seconds
\* have passed without a request from it; a timestamp exactly RATE_WINDOW old
\* is expired.
C5_AdmittedAgainAfterWindow ==
    \A m \in 1..Len(calls) :
        (RejectedBefore(m) /\ QuietBefore(m)) => calls[m].ok

\* a rejected host is admitted exactly RATE_WINDOW after its last admitted call
C5_Witness ==
    \E m \in 1..Len(calls) :
        /\ RejectedBefore(m)
        /\ QuietBefore(m)
        /\ \E j \in 1..(m - 1) :
              SameHost(j, m) /\ calls[j].ok /\ calls[m].t - calls[j].t = RATE_WINDOW
        /\ calls[m].ok

\* ---- downloads (Spec)
\* C2: when stream_file has been consumed to the end, the file located for
\* the request is no longer in /tmp.
C2_ConsumedStreamDeletesFile ==
    [][\A r \in Reqs :
          (ending'[r] = "consumed" /\ ending[r] # "consumed") =>
              (file_path[r] # NONE /\ file_path[r] \notin tmp')]_vars

\* a download was streamed to the end and nothing of it is left in /tmp
C2_Witness ==
    \E r \in Reqs : status[r] = 200 /\ ending[r] = "consumed" /\ tmp = {}

\* C3: when the transfer of a successful download is interrupted, before or
\* between chunks, the file located for the request is deleted all the same.
C3_InterruptedStreamDeletesFile ==
    [][\A r \in Reqs :
          (ending'[r] = "interrupted" /\ ending[r] # "interrupted") =>
              file_path[r] \notin tmp']_vars

\* C9: when a /download request ends with an error response, no file whose
\* name starts with its identifier is left in /tmp.
C9_NoArtifactAfterError ==
    [][\A r \in Reqs :
          (status'[r] = 500 /\ status[r] # 500 /\ uid[r] # NONE) =>
              ~\E f \in tmp' : StartsWith(f, uid[r])]_vars

\* C10: the identifiers of the download requests outstanding at the same
\* time are pairwise distinct.
C10_OutstandingIdentifiersDistinct ==
    \A r, q \in Reqs :
        (r # q /\ uid[r] # NONE /\ uid[q] # NONE) => uid[r] # uid[q]

\* ---- admission under concurrent requests (SpecAdmission)
\* the admitted timestamps of host i within the RATE_WINDOW seconds from s on
AdmittedFrom(i, s) ==
    {j \in 1..Len(admitted[i]) : s <= admitted[i][j] /\ admitted[i][j] < s + RATE_WINDOW}

\* C4: whatever the interleaving of the requests, no host has more than
\* RATE_LIMIT admitted requests in any interval of RATE_WINDOW seconds (an
\* interval that holds the most admissions starts at one of them).
C4_NeverMoreThanLimitPerWindow ==
    \A i \in IPs : \A k \in 1..Len(admitted[i]) :
        Cardinality(AdmittedFrom(i, admitted[i][k])) <= RATE_LIMIT

\* a host has been admitted more than RATE_LIMIT times over two windows,
\* and a request is rejected while the other request is being handled
C4_Witness ==
    /\ \E i \in IPs : Len(admitted[i]) > RATE_LIMIT
    /\ \E r, q \in Reqs : r # q /\ status[r] = 429 /\ pc[q] \notin {"idle", "done"}

\* the presented credential is not the one asked for
BadCredential(r) == API_KEY \notin {NONE, ""} /\ hdr[r] # API_KEY

\* C7: a request rejected with 401 leaves the timestamp lists of all hosts
\* as they were, and no request with an invalid credential is answered 429.
C7_GuardBeforeGate ==
    [][\A r \in Reqs :
          /\ (status'[r] = 401 /\ status[r] # 401) => clients' = clients
          /\ (status'[r] = 429 /\ status[r] # 429) => ~BadCredential(r)]_vars

\* one request was answered 401 and another 429, with timestamps stored
C7_Witness ==
    \E r, q \in Reqs :
        /\ status[r] = 401
        /\ status[q] = 429
        /\ \E i \in DOMAIN clients : Len(clients[i]) = RATE_LIMIT

\* ---- the credential check (SpecAuth)
\* C6: when a (non-empty) secret is configured and the X-API-KEY value,
\* absent or present, is not exactly it, the request ends with 401; when no
\* secret is configured or the value matches, the guard does not reject.
C6_GuardRejectsExactlyBadCredentials ==
    [][\A r \in Reqs :
          /\ (pc[r] = "verify" /\ pc'[r] # "verify") =>
                (status'[r] = 401 <=> BadCredential(r))
          /\ (status'[r] = 401 /\ status[r] # 401) => pc[r] = "verify"]_vars

\* behind a secret, one request was answered 401 and the other went on
C6_Witness ==
    \E r, q \in Reqs :
        /\ API_KEY = "s3cr3t"
        /\ status[r] = 401
        /\ pc[q] = "ready" /\ hdr[q] = API_KEY

\* ---- /playlist/info (SpecPlaylist)
\* C8: when the engine result has no 'entries', /playlist/info ends with
\* 400; only other engine failures end with 500.
C8_NotAPlaylistIs400 ==
    (response.status # 0 /\ info.kind = "video") => response.status = 400

\* ---- the event loop (SpecAdmission)
\* request r is inside a blocking engine call: extract_info or download
InEngine(r) == pc[r] \in {"probe", "download"}

\* C11: while one request is inside a blocking engine call, the admission
\* check of another request, from any client, that is ready for it can be
\* carried out.
C11_OthersProgressDuringEngineCall ==
    \A r, q \in Reqs :
        (r # q /\ InEngine(r) /\ pc[q] = "ready") =>
            ENABLED RateLimit(q, AdmissionWorld)

\* ---- the statuses of /download (Spec)
\* request r is past the admission gate and has no response yet
PastGate(r) == pc[r] \in {"probe", "naming", "download", "locate", "validate"}

C13_PlaylistKeepsNonNullInOrder ==
    response.status = 200 =>
        LET NonNull(e) == e # Null
            kept == SelectSeq(info.entries, NonNull)
            videos == response.body.videos
        IN /\ Len(videos) = Len(kept)
           /\ \A k \in 1..Len(kept) :
                 /\ videos[k].id = Get(kept[k], "id")
                 /\ videos[k].title = Get(kept[k], "title")
                 /\ videos[k].thumbnail = Get(kept[k], "thumbnail")
                 /\ videos[k].duration = Get(kept[k], "duration")
                 /\ videos[k].url = Get(kept[k], "webpage_url")
           /\ response.body.count = Len(videos)

\* a playlist with a null member between two videos: two videos are
\* reported, in order, out of three entries
C13_Witness ==
    /\ response.status = 200
    /\ Len(info.entries) = 3
    /\ info.entries[2] = Null
    /\ response.body.count = 2
    /\ response.body.videos[1].id = "b"
    /\ response.body.videos[2].id = "a"

IsCall == Len(calls') = Len(calls) + 1

\* the call made in this step
ThisCall == calls'[Len(calls')]

\* how many timestamps of a list are less than RATE_WINDOW old at time s
LiveAt(list, s) == Cardinality({k \in 1..Len(list) : s - list[k] < RATE_WINDOW})

\* C15: a call of rate_limit that is rejected stores no timestamp: the
\* host's list is afterwards its earlier list without the expired entries,
\* so the list counts the same at every later time as it would have without
\* the call.
C15_RejectedCallRecordsNothing ==
    [][(IsCall /\ ~ThisCall.ok) =>
          LET ip == ThisCall.ip
              Unexpired(t) == now - t < RATE_WINDOW
          IN /\ ip \in DOMAIN clients'
             /\ clients'[ip] = SelectSeq(Stored(ip), Unexpired)
             /\ \A s \in now..(now + RATE_WINDOW) :
                   LiveAt(clients'[ip], s) = LiveAt(Stored(ip), s)]_vars

\* a host is rejected twice in a row, later than its first stored timestamp
C15_Witness ==
    \E k \in 2..Len(calls) :
        /\ SameHost(k - 1, k)
        /\ ~calls[k - 1].ok
        /\ ~calls[k].ok
        /\ calls[k].t > clients[calls[k].ip][1]
        /\ Len(clients[calls[k].ip]) = RATE_LIMIT

\* C16: a call of rate_limit for one host, admitted or rejected, leaves the
\* stored list of every other host as it was, and the call is admitted
\* exactly when fewer than RATE_LIMIT earlier admitted calls of its own host
\* are less than RATE_WINDOW old.
C16_IdentitiesIndependent ==
    [][IsCall =>
          /\ \A b \in IPs \ {ThisCall.ip} :
                /\ b \in DOMAIN clients' <=> b \in DOMAIN clients
                /\ b \in DOMAIN clients => clients'[b] = clients[b]
          /\ ThisCall.ok <=>
                Cardinality({j \in 1..Len(calls) :
                                /\ calls[j].ip = ThisCall.ip
                                /\ calls[j].ok
                                /\ now - calls[j].t < RATE_WINDOW}) < RATE_LIMIT]_vars

\* at one time, one host is rejected and then another host is admitted
C16_Witness ==
    \E k, m \in 1..Len(calls) :
        /\ k < m
        /\ ~SameHost(k, m)
        /\ calls[k].t = calls[m].t
        /\ ~calls[k].ok
        /\ calls[m].ok

\* ---- the order of the steps of /download (Spec)
\* the steps of a request in the order of the handler: credential check,
\* rate_limit, extract_info, uuid, download, listdir, the test of file_path
\* with the return of the response, the first read of stream_file
StepOrder ==
    <<"verify", "ready", "probe", "naming", "download", "locate", "validate",
      "respond", "streaming">>

\* the request is at step number n
AtStep(r, n) == pc[r] = StepOrder[n]

\* the file located for r is in /tmp and its name starts with r's identifier
LocatedOwnPrefix(r) ==
    /\ file_path[r] \in tmp
    /\ uid[r] # NONE
    /\ StartsWith(file_path[r], uid[r])

\* C17: a /download request takes its steps in the order credential check,
\* rate_limit, probe, identifier, download, location, stream: each step is
\* entered from the one before it only, a request answered 401 or 429 never
\* got to the probe, and the response is returned and the stream opened only
\* with an existing file whose name starts with the identifier.
C17_StepsInOrder ==
    [][\A r \in Reqs :
          pc'[r] # pc[r] =>
            /\ pc'[r] = "verify" => pc[r] \in {"idle", "done"}
            /\ \A n \in 2..Len(StepOrder) :
                  pc'[r] = StepOrder[n] => AtStep(r, n - 1)
            /\ status'[r] = 401 => AtStep(r, 1)
            /\ status'[r] = 429 => AtStep(r, 2)
            /\ pc'[r] \in {"respond", "streaming"} => LocatedOwnPrefix(r)]_vars

\* one request is being streamed while another was turned away at the gate
C17_Witness ==
    \E r, q \in Reqs :
        /\ pc[r] = "streaming"
        /\ sent[r] > 0
        /\ LocatedOwnPrefix(r)
        /\ status[q] = 429

\* ---- the stored lists (SpecGate)
\* C19: the stored list of a host never holds more than RATE_LIMIT
\* timestamps, no host is ever dropped from the dict, and a host's list
\* changes only in a call of rate_limit made by that host.
C19_ListsBoundedAndOwned ==
    [][/\ \A i \in DOMAIN clients' : Len(clients'[i]) <= RATE_LIMIT
       /\ DOMAIN clients \subseteq DOMAIN clients'
       /\ \A i \in DOMAIN clients' :
             (i \notin DOMAIN clients \/ clients'[i] # clients[i]) =>
                 (IsCall /\ ThisCall.ip = i)]_vars

\* a full list whose timestamps have all expired is still stored, while
\* another host has been admitted since
C19_Witness ==
    \E i, j \in DOMAIN clients :
        /\ i # j
        /\ Len(clients[i]) = RATE_LIMIT
        /\ now - clients[i][RATE_LIMIT] >= RATE_WINDOW
        /\ Len(clients[j]) > 0
        /\ clients[j][Len(clients[j])] = now

\* ---- quota and failed downloads (SpecAdmission)
\* the timestamps of a list that are less than RATE_WINDOW old now
Unexpired(list) ==
    LET Young(t) == now - t < RATE_WINDOW
    IN SelectSeq(list, Young)

\* every admission of the last RATE_WINDOW seconds is still in the list of
\* its host, whatever became of the request
QuotaKept == \A i \in IPs : Unexpired(admitted[i]) = Unexpired(Stored(i))

\* C20: a /download request that fails with 500 after it was admitted
\* leaves the timestamp lists as they are, and every admission of the last
\* RATE_WINDOW seconds stays counted against its host, so that a host whose
\* admitted requests failed is rejected like any other at the limit.
C20_QuotaNotGivenBack ==
    [][/\ \A r \in Reqs :
             (status'[r] = 500 /\ status[r] # 500) => clients' = clients
       /\ QuotaKept']_vars

\* a request has failed with 500 and another is rejected with 429, the host
\* having RATE_LIMIT timestamps within the window
C20_Witness ==
    \E r, q \in Reqs :
        /\ status[r] = 500
        /\ status[q] = 429
        /\ \E i \in IPs : Len(Unexpired(Stored(i))) = RATE_LIMIT

\* ---- whose file a request takes (Spec)
\* C18: when the identifiers of the outstanding requests are pairwise
\* distinct, the file a request finds in its scan of /tmp, which is the one
\* it streams and deletes, was written by its own call of ydl.download.
C18_LocatesOwnArtifact ==
    [][\A r \in Reqs :
          (/\ pc[r] = "locate"
           /\ pc'[r] = "validate"
           /\ C10_OutstandingIdentifiersDistinct
           /\ file_path'[r] # NONE) => file_path'[r] \in written[r]]_vars

====
